---- MODULE Spec2Model ----
(***************************************************************************)
(* A model of the chat bot of src/main.py (TextCleaner, SpamDetector,      *)
(* WordMonitorBot, load_config, main).                                     *)
(*                                                                         *)
(* A Python str is a sequence of characters; a character is a one-letter   *)
(* TLA+ string.  The non-ASCII characters carry their code point as name:  *)
(*   "U+00E9" e with acute          "U+0301" combining acute accent        *)
(*   "U+210C" black-letter capital H (no lowercase mapping, NFKD = "H")    *)
(*   "U+0436" cyrillic zhe (no ASCII decomposition)                        *)
(***************************************************************************)
EXTENDS Integers, Sequences, FiniteSets, TLC

VARIABLES
    status,              \* "running" once main() built the bot, else "exited"
    channels,            \* WordMonitorBot._channels
    word_responses,      \* WordMonitorBot.word_responses, an insertion-ordered dict
    spam_patterns,       \* WordMonitorBot.spam_detector.spam_patterns
    response_delay,      \* WordMonitorBot.response_delay
    last_response_time,  \* WordMonitorBot.last_response_time
    disk,                \* the document stored in config.yml
    failures,            \* how many times writing config.yml has failed
    now,                 \* the value time.time() returns
    msg,                 \* the message whose handler has just run, if any
    acts,                \* what that handler asked of the transport and the disk
    responseLog,         \* the times at which a trigger response was sent
    probe,               \* input and results of the text functions run alone
    tasks                \* the handlers that are suspended at an await

botVars == <<status, channels, word_responses, spam_patterns, response_delay,
             last_response_time>>
vars == <<status, channels, word_responses, spam_patterns, response_delay,
          last_response_time, disk, failures, now, msg, acts, responseLog, probe,
          tasks>>

----------------------------------------------------------------------------
(* Characters                                                              *)

LowerLetters ==
    <<"a","b","c","d","e","f","g","h","i","j","k","l","m",
      "n","o","p","q","r","s","t","u","v","w","x","y","z">>
UpperLetters ==
    <<"A","B","C","D","E","F","G","H","I","J","K","L","M",
      "N","O","P","Q","R","S","T","U","V","W","X","Y","Z">>

Range(s) == {s[i] : i \in 1..Len(s)}

\* the characters re.sub deletes at line 18
Punctuation == {",", ".", "'", "\"", "~", "-", "_", "?", "!", "*"}
\* the ASCII characters str.split() splits on
Whitespace == {" ", "\t", "\n"}
Digits == {"0","1","2","3","4","5","6","7","8","9"}
AsciiChars ==
    Range(LowerLetters) \cup Range(UpperLetters) \cup Punctuation
        \cup Whitespace \cup Digits \cup {":", "/", "{", "}"}

\* str.lower() on one character
LowerChar(c) ==
    IF c \in Range(UpperLetters)
    THEN LowerLetters[CHOOSE i \in 1..26 : UpperLetters[i] = c]
    ELSE c

\* unicodedata.normalize("NFKD", c) on one character
NFKDChar(c) ==
    CASE c = "U+00E9" -> <<"e", "U+0301">>
      [] c = "U+210C" -> <<"H">>
      [] OTHER -> <<c>>

\* code-point order of the characters that occur in dictionary keys
CharOrder == <<"!", ".">> \o UpperLetters \o LowerLetters
CharCode(c) == CHOOSE i \in 1..Len(CharOrder) : CharOrder[i] = c

----------------------------------------------------------------------------
(* Strings                                                                 *)

RECURSIVE FlatMap(_, _)
FlatMap(F(_), s) ==
    IF s = <<>> THEN <<>> ELSE F(Head(s)) \o FlatMap(F, Tail(s))

\* str.lower()
Lower(s) == [i \in 1..Len(s) |-> LowerChar(s[i])]

\* unicodedata.normalize("NFKD", s)
NFKD(s) == FlatMap(NFKDChar, s)

\* s.encode("ASCII", "ignore").decode("ASCII")
AsciiIgnore(s) == SelectSeq(s, LAMBDA c : c \in AsciiChars)

\* re.sub(r"(.)\1+", r"\1", s): every maximal run of one character other
\* than the newline becomes that character once
RECURSIVE CollapseRuns(_)
CollapseRuns(s) ==
    IF Len(s) < 2 THEN s
    ELSE IF s[1] = s[2] /\ s[1] # "\n" THEN CollapseRuns(Tail(s))
    ELSE <<s[1]>> \o CollapseRuns(Tail(s))

\* re.sub(r"[,\.\'\"~\-_\?\!\*]", "", s)
StripPunctuation(s) == SelectSeq(s, LAMBDA c : c \notin Punctuation)

\* s.split(): the maximal runs of non-whitespace characters
RECURSIVE SplitFrom(_, _)
SplitFrom(s, word) ==
    IF s = <<>> THEN (IF word = <<>> THEN <<>> ELSE <<word>>)
    ELSE IF Head(s) \in Whitespace
         THEN (IF word = <<>> THEN <<>> ELSE <<word>>) \o SplitFrom(Tail(s), <<>>)
         ELSE SplitFrom(Tail(s), Append(word, Head(s)))
Split(s) == SplitFrom(s, <<>>)

\* sep.join(words)
RECURSIVE Join(_, _)
Join(sep, words) ==
    IF words = <<>> THEN <<>>
    ELSE IF Len(words) = 1 THEN words[1]
    ELSE words[1] \o sep \o Join(sep, Tail(words))

\* s.startswith(prefix)
StartsWith(s, prefix) ==
    Len(s) >= Len(prefix) /\ SubSeq(s, 1, Len(prefix)) = prefix

\* needle in haystack, for two str
StrContains(haystack, needle) ==
    \E i \in 0..(Len(haystack) - Len(needle)) :
        \A k \in 1..Len(needle) : haystack[i + k] = needle[k]

\* s < t, for two str
RECURSIVE StrLess(_, _)
StrLess(s, t) ==
    IF t = <<>> THEN FALSE
    ELSE IF s = <<>> THEN TRUE
    ELSE IF Head(s) = Head(t) THEN StrLess(Tail(s), Tail(t))
    ELSE CharCode(Head(s)) < CharCode(Head(t))

----------------------------------------------------------------------------
(* TextCleaner and SpamDetector                                            *)

clean_text(text) ==
    LET lowered   == Lower(text)
        folded    == AsciiIgnore(NFKD(lowered))
        collapsed == CollapseRuns(folded)
        stripped  == StripPunctuation(collapsed)
    IN  Join(<<" ">>, Split(stripped))

\* SpamDetector.__init__
SpamDetectorInit(patterns) == [i \in 1..Len(patterns) |-> Lower(patterns[i])]

is_spam(patterns, message) ==
    LET cleaned_msg == clean_text(message)
    IN  \E i \in 1..Len(patterns) : StrContains(cleaned_msg, patterns[i])

----------------------------------------------------------------------------
(* dict, as Python keeps it: the keys in insertion order                   *)

DictKeys(d) == {d[i][1] : i \in 1..Len(d)}
DictGet(d, k) == d[CHOOSE i \in 1..Len(d) : d[i][1] = k][2]
\* faulty variant of DictSet: an existing key goes last as well
DictSetMovingToEnd(d, k, v) ==
    Append(SelectSeq(d, LAMBDA item : item[1] # k), <<k, v>>)

\* d[k] = v: an existing key keeps its place, a new key goes last
DictSet(d, k, v) ==
    IF k \in DictKeys(d)
    THEN [i \in 1..Len(d) |-> IF d[i][1] = k THEN <<k, v>> ELSE d[i]]
    ELSE Append(d, <<k, v>>)
\* del d[k]
DictDel(d, k) == SelectSeq(d, LAMBDA item : item[1] # k)
\* d1 == d2, which ignores the order
DictEq(d1, d2) == Range(d1) = Range(d2)

\* sorted(d.items()), as yaml.dump orders a mapping (sort_keys defaults to True)
RECURSIVE SortedInsert(_, _)
SortedInsert(sorted, item) ==
    IF sorted = <<>> THEN <<item>>
    ELSE IF StrLess(item[1], Head(sorted)[1]) THEN <<item>> \o sorted
    ELSE <<Head(sorted)>> \o SortedInsert(Tail(sorted), item)
RECURSIVE SortedItems(_)
SortedItems(d) ==
    IF d = <<>> THEN <<>>
    ELSE SortedInsert(SortedItems(SubSeq(d, 1, Len(d) - 1)), d[Len(d)])

\* faulty variant of ListRemove: every occurrence goes
ListRemoveAll(l, x) == SelectSeq(l, LAMBDA y : y # x)

\* list.remove(x): the first occurrence goes
ListRemove(l, x) ==
    LET first == CHOOSE i \in 1..Len(l) : l[i] = x /\ \A j \in 1..(i - 1) : l[j] # x
    IN  SubSeq(l, 1, first - 1) \o SubSeq(l, first + 1, Len(l))

----------------------------------------------------------------------------
(* The configuration file.  A YAML document is a function from its keys;   *)
(* a file that holds no mapping (an empty or a cut-off file, for which     *)
(* yaml.safe_load returns None) is the function with no key.               *)

EmptyFile == [k \in {} |-> 0]
None == [none |-> TRUE]

\* faulty variant of DumpConfig: the delay left out of the dict
DumpConfigWithoutDelay(chs, responses, patterns, delay) ==
    [channels |-> chs,
     word_responses |-> SortedItems(responses),
     spam_patterns |-> patterns]

\* yaml.dump(config, f) as save_config builds config
DumpConfig(chs, responses, patterns, delay) ==
    [channels |-> chs,
     word_responses |-> SortedItems(responses),
     spam_patterns |-> patterns,
     response_delay |-> delay]

\* dict.setdefault(k, v)
SetDefault(d, k, v) ==
    IF k \in DOMAIN d THEN d
    ELSE [x \in DOMAIN d \cup {k} |-> IF x = k THEN v ELSE d[x]]

DefaultSpamPatterns == <<<<"c","a","s","i","n","o">>>>
DefaultResponseDelay == 1

\* "channels" not in None raises, which the except clause turns into None
load_config(file) ==
    IF "channels" \notin DOMAIN file THEN None
    ELSE SetDefault(
             SetDefault(
                 SetDefault(file, "word_responses", <<>>),
                 "spam_patterns", DefaultSpamPatterns),
             "response_delay", DefaultResponseDelay)

\* what open(config_path, "w") and yaml.dump leave on the disk
SaveOutcomes == {"written", "open_failed", "write_failed"}
FileAfterSave(outcome, old, chs, responses, patterns, delay) ==
    CASE outcome = "written"      -> DumpConfig(chs, responses, patterns, delay)
      [] outcome = "open_failed"  -> old
      [] outcome = "write_failed" -> EmptyFile
\* the value save_config returns
Saved(outcome) == outcome = "written"

----------------------------------------------------------------------------
(* Bounds and the inputs the environment sends                             *)

Epoch == 5         \* time.time() when the bot starts
MaxTime == 3       \* the clock runs from Epoch to Epoch + MaxTime
MaxPatterns == 2   \* addspam is taken while the list is shorter than this
MaxFailures == 1   \* the writes of config.yml that fail
MaxLen == 3        \* the longest text the text functions are run on alone
MaxTasks == 2      \* the handlers that are in progress at one time

S_chan == <<"c","h","a","n">>
S_bob == <<"b","o","b">>
S_Bob == <<"B","o","b">>
S_go == <<"g","o">>
S_hi == <<"h","i">>
S_bye == <<"b","y","e">>
S_hey == <<"h","e","y">>
S_yo == <<"y","o">>
S_casino == <<"c","a","s","i","n","o">>
S_Casino == <<"C","a","s","i","n","o">>

\* the config.yml files the bot is started on
FullFile ==
    [channels |-> <<S_chan, S_bob>>,
     word_responses |-> <<<<S_hi, S_yo>>>>,
     spam_patterns |-> <<S_Casino>>,
     response_delay |-> 3]
ChannelsOnlyFile == [channels |-> <<S_bob>>]
NoChannelsFile == [response_delay |-> 3]
EmptyChannelsFile == [channels |-> <<>>]
InitialFiles == {FullFile, ChannelsOnlyFile, NoChannelsFile, EmptyChannelsFile, EmptyFile}

Message(content, author, channel, is_mod, echo) ==
    [content |-> content, author |-> author, channel |-> channel,
     is_mod |-> is_mod, echo |-> echo]
NoMessage == Message(<<>>, <<>>, <<>>, FALSE, FALSE)

\* chat lines
T_GO == <<"G","O","!">>
T_ago == <<"a","g","o">>
T_hi_go == <<"h","i"," ","g","o">>
T_CASINO_go == <<"C","A","S","I","N","O"," ","g","o">>
\* command lines
T_addresponse_go == <<"!","a","d","d","r","e","s","p","o","n","s","e"," ","g","o"," ","b","y","e">>
T_addresponse_HI == <<"!","a","d","d","r","e","s","p","o","n","s","e"," ","H","I"," ","h","e","y">>
T_delresponse_Hi == <<"!","d","e","l","r","e","s","p","o","n","s","e"," ","H","i">>
T_responses == <<"!","r","e","s","p","o","n","s","e","s">>
T_addspam_Casino == <<"!","a","d","d","s","p","a","m"," ","C","a","s","i","n","o">>
T_delspam_CASINO == <<"!","d","e","l","s","p","a","m"," ","C","A","S","I","N","O">>
T_spampatterns == <<"!","s","p","a","m","p","a","t","t","e","r","n","s">>
T_casino == <<"!","c","a","s","i","n","o">>

ChatTexts == {T_GO, T_ago, T_hi_go, T_CASINO_go}
CommandTexts ==
    {T_addresponse_go, T_addresponse_HI, T_delresponse_Hi, T_responses,
     T_addspam_Casino, T_delspam_CASINO, T_spampatterns, T_casino}

\* who writes where: a viewer and a moderator in chan, the broadcaster of bob,
\* and the bot's own lines coming back
Messages ==
    {Message(t, S_bob, S_chan, FALSE, FALSE) :
        t \in ChatTexts \cup (CommandTexts \ {T_addresponse_HI, T_casino})}
    \cup {Message(t, S_bob, S_chan, TRUE, FALSE) :
        t \in {T_GO, T_CASINO_go} \cup CommandTexts}
    \cup {Message(t, S_Bob, S_bob, FALSE, FALSE) :
        t \in {T_hi_go, T_CASINO_go, T_addresponse_go, T_delspam_CASINO}}
    \cup {Message(t, S_bob, S_chan, FALSE, TRUE) :
        t \in {T_GO, T_CASINO_go, T_addspam_Casino}}

----------------------------------------------------------------------------
(* What a handler asks of the transport and of the disk, in order.         *)
(* fmt is the f-string of the source, arg the value it interpolates.       *)

Act(op, fmt, arg, ok) == [op |-> op, fmt |-> fmt, arg |-> arg, ok |-> ok]
\* await ctx.send(...), await message.channel.send(...)
Send(fmt, arg) == Act("send", fmt, arg, TRUE)
\* save_config()
Save(outcome) == Act("save_config", outcome, <<>>, Saved(outcome))

TimeoutFmt == "/timeout {message.author.name} 3"
ResponseFmt == "{response}"
SaveFailedFmt == "Failed to save configuration"

----------------------------------------------------------------------------
(* main and WordMonitorBot.__init__                                        *)

Init ==
    \E file \in InitialFiles :
        LET config == load_config(file) IN
        /\ disk = file
        /\ IF config = None
           THEN /\ status = "exited"
                /\ channels = <<>>
                /\ word_responses = <<>>
                /\ spam_patterns = <<>>
                /\ response_delay = 0
           ELSE /\ status = "running"
                /\ channels = config.channels
                /\ word_responses = config.word_responses
                /\ spam_patterns = SpamDetectorInit(config.spam_patterns)
                /\ response_delay = config.response_delay
        /\ last_response_time = 0
        /\ failures = 0
        /\ now = Epoch
        /\ msg = NoMessage
        /\ acts = <<>>
        /\ responseLog = <<>>
        /\ probe = <<>>
        /\ tasks = <<>>

\* time passes between two messages
Tick ==
    /\ msg = NoMessage
    /\ now < Epoch + MaxTime
    /\ now' = now + 1
    /\ UNCHANGED <<botVars, disk, failures, msg, acts, responseLog, probe, tasks>>

----------------------------------------------------------------------------
(* WordMonitorBot: the command handlers                                    *)

\* faulty variant of Privileged: the two names compared as they are written
PrivilegedCaseSensitive(is_mod, author, channel) == is_mod \/ author = channel

\* ctx.author.is_mod or ctx.author.name.lower() == ctx.channel.name.lower()
Privileged(is_mod, author, channel) == is_mod \/ Lower(author) = Lower(channel)

\* a handler that returns without asking anything of anyone
Return ==
    /\ acts' = <<>>
    /\ UNCHANGED <<word_responses, spam_patterns, last_response_time, disk, failures,
                   responseLog>>

\* a handler that only answers
Reply(fmt, arg) ==
    /\ acts' = <<Send(fmt, arg)>>
    /\ UNCHANGED <<word_responses, spam_patterns, last_response_time, disk, failures,
                   responseLog>>

\* faulty variant of SaveAndReply: the value of save_config() is not looked at
SaveAndReplyUnchecked(responses, patterns, fmt, arg) ==
    \E outcome \in SaveOutcomes :
        /\ Saved(outcome) \/ failures < MaxFailures
        /\ failures' = IF Saved(outcome) THEN failures ELSE failures + 1
        /\ word_responses' = responses
        /\ spam_patterns' = patterns
        /\ disk' = FileAfterSave(outcome, disk, channels, responses, patterns,
                                 response_delay)
        /\ acts' = <<Save(outcome), Send(fmt, arg)>>
        /\ UNCHANGED <<last_response_time, responseLog>>

\* save_config() and the answer that follows it, after the dict or the list
\* was changed to responses and patterns
SaveAndReply(responses, patterns, fmt, arg) ==
    \E outcome \in SaveOutcomes :
        /\ Saved(outcome) \/ failures < MaxFailures
        /\ failures' = IF Saved(outcome) THEN failures ELSE failures + 1
        /\ word_responses' = responses
        /\ spam_patterns' = patterns
        /\ disk' = FileAfterSave(outcome, disk, channels, responses, patterns,
                                 response_delay)
        /\ acts' = <<Save(outcome),
                     IF Saved(outcome) THEN Send(fmt, arg) ELSE Send(SaveFailedFmt, <<>>)>>
        /\ UNCHANGED <<last_response_time, responseLog>>

\* faulty variant of add_response: the author is not looked at
add_responseUnchecked(ctx, trigger, response) ==
    SaveAndReply(DictSet(word_responses, Lower(trigger), response), spam_patterns,
                 "Added response for '{trigger}'", trigger)

add_response(ctx, trigger, response) ==
    IF ~Privileged(ctx.is_mod, ctx.author, ctx.channel) THEN Return
    ELSE SaveAndReply(DictSet(word_responses, Lower(trigger), response), spam_patterns,
                      "Added response for '{trigger}'", trigger)

delete_response(ctx, trigger) ==
    IF ~Privileged(ctx.is_mod, ctx.author, ctx.channel) THEN Return
    ELSE IF Lower(trigger) \in DictKeys(word_responses)
    THEN SaveAndReply(DictDel(word_responses, Lower(trigger)), spam_patterns,
                      "Deleted response for '{trigger}'", trigger)
    ELSE Reply("No response found for '{trigger}'", trigger)

list_responses(ctx) ==
    IF ~Privileged(ctx.is_mod, ctx.author, ctx.channel) THEN Return
    ELSE IF word_responses = <<>> THEN Reply("No responses configured", <<>>)
    ELSE Reply("Current responses: {response_list}",
               Join(<<",", " ">>,
                    [i \in 1..Len(word_responses) |->
                        word_responses[i][1] \o <<":", " ">> \o word_responses[i][2]]))

add_spam_pattern(ctx, pattern) ==
    IF ~Privileged(ctx.is_mod, ctx.author, ctx.channel) THEN Return
    ELSE /\ Len(spam_patterns) < MaxPatterns
         /\ SaveAndReply(word_responses, Append(spam_patterns, Lower(pattern)),
                         "Added spam pattern '{pattern}'", pattern)

\* faulty variant of delete_spam_pattern: the list is not searched first
delete_spam_patternUnchecked(ctx, pattern) ==
    IF ~Privileged(ctx.is_mod, ctx.author, ctx.channel) THEN Return
    ELSE SaveAndReply(word_responses,
                      SelectSeq(spam_patterns, LAMBDA known : known # Lower(pattern)),
                      "Deleted spam pattern '{pattern}'", Lower(pattern))

delete_spam_pattern(ctx, pattern) ==
    IF ~Privileged(ctx.is_mod, ctx.author, ctx.channel) THEN Return
    ELSE IF Lower(pattern) \in Range(spam_patterns)
    THEN SaveAndReply(word_responses, ListRemove(spam_patterns, Lower(pattern)),
                      "Deleted spam pattern '{pattern}'", Lower(pattern))
    ELSE Reply("Spam pattern '{pattern}' not found", Lower(pattern))

list_spam_patterns(ctx) ==
    IF ~Privileged(ctx.is_mod, ctx.author, ctx.channel) THEN Return
    ELSE Reply("Current spam patterns: {patterns}", Join(<<",", " ">>, spam_patterns))

\* the prefix main() gives the bot, which event_message tests for as well
Prefix == <<"!">>
CommandName(content) == SubSeq(Split(content)[1], Len(Prefix) + 1, Len(Split(content)[1]))
CommandArgs(content) == Tail(Split(content))

\* commands.Bot.handle_commands: the word after the prefix names the command,
\* the words after it are its arguments; an unknown command or a missing
\* argument ends in event_command_error, which only prints
handle_commands(message) ==
    LET name == CommandName(message.content)
        args == CommandArgs(message.content)
    IN  CASE name = <<"a","d","d","r","e","s","p","o","n","s","e">> /\ Len(args) >= 2 ->
                add_response(message, args[1], Join(<<" ">>, Tail(args)))
          [] name = <<"d","e","l","r","e","s","p","o","n","s","e">> /\ Len(args) >= 1 ->
                delete_response(message, args[1])
          [] name = <<"r","e","s","p","o","n","s","e","s">> ->
                list_responses(message)
          [] name = <<"a","d","d","s","p","a","m">> /\ Len(args) >= 1 ->
                add_spam_pattern(message, args[1])
          [] name = <<"d","e","l","s","p","a","m">> /\ Len(args) >= 1 ->
                delete_spam_pattern(message, args[1])
          [] name = <<"s","p","a","m","p","a","t","t","e","r","n","s">> ->
                list_spam_patterns(message)
          [] OTHER -> Return

----------------------------------------------------------------------------
(* WordMonitorBot.event_message                                            *)

\* faulty variants of CooldownActive: the delay taken one second short, and a message
\* at the very end of the delay still refused
CooldownActiveShort(current_time, last, delay) == current_time - last < delay - 1
CooldownActiveInclusive(current_time, last, delay) == current_time - last <= delay

\* current_time - self.last_response_time < self.response_delay
CooldownActive(current_time, last, delay) == current_time - last < delay

\* faulty variant of FirstTrigger: the cleaned trigger is looked for anywhere in the
\* cleaned text, inside a longer word as well
FirstTriggerBySubstring(responses, words) ==
    LET hits == {i \in 1..Len(responses) :
                    StrContains(Join(<<" ">>, words), clean_text(responses[i][1]))}
    IN  IF hits = {} THEN 0 ELSE CHOOSE i \in hits : \A j \in hits : i <= j

\* the for loop of lines 204-209: the place in the dict of the first trigger
\* whose cleaned form is one of the words, 0 when there is none
FirstTrigger(responses, words) ==
    LET hits == {i \in 1..Len(responses) : clean_text(responses[i][1]) \in Range(words)}
    IN  IF hits = {} THEN 0 ELSE CHOOSE i \in hits : \A j \in hits : i <= j

\* lines 197-209
respond(message) ==
    LET current_time == now
        words_in_message == Split(clean_text(message.content))
        hit == FirstTrigger(word_responses, words_in_message)
    IN  IF CooldownActive(current_time, last_response_time, response_delay) THEN Return
        ELSE IF hit = 0 THEN Return
        ELSE /\ acts' = <<Send(ResponseFmt, word_responses[hit][2])>>
             /\ last_response_time' = current_time
             /\ responseLog' = Append(responseLog, current_time)
             /\ UNCHANGED <<word_responses, spam_patterns, disk, failures>>

\* what the two awaits of the try block come to
ModerationOutcomes == {"done", "timeout_failed", "delete_failed"}
\* faulty variant of Moderation: a timeout that failed is sent a second time
ModerationRetrying(outcome, author) ==
    CASE outcome = "done" ->
            <<Act("send", TimeoutFmt, author, TRUE), Act("delete", "", <<>>, TRUE)>>
      [] outcome = "timeout_failed" ->
            <<Act("send", TimeoutFmt, author, FALSE), Act("send", TimeoutFmt, author, TRUE),
              Act("delete", "", <<>>, TRUE)>>
      [] outcome = "delete_failed" ->
            <<Act("send", TimeoutFmt, author, TRUE), Act("delete", "", <<>>, FALSE)>>

Moderation(outcome, author) ==
    CASE outcome = "done" ->
            <<Act("send", TimeoutFmt, author, TRUE), Act("delete", "", <<>>, TRUE)>>
      [] outcome = "timeout_failed" ->
            <<Act("send", TimeoutFmt, author, FALSE)>>
      [] outcome = "delete_failed" ->
            <<Act("send", TimeoutFmt, author, TRUE), Act("delete", "", <<>>, FALSE)>>

\* faulty variant of moderate: a privileged author's spam goes on to the triggers
moderateFallingThrough(message) ==
    IF ~(message.is_mod \/ Lower(message.author) = Lower(message.channel))
    THEN \E outcome \in ModerationOutcomes :
            /\ acts' = Moderation(outcome, message.author)
            /\ UNCHANGED <<word_responses, spam_patterns, last_response_time, disk,
                           failures, responseLog>>
    ELSE respond(message)

\* lines 180-195
moderate(message) ==
    IF ~Privileged(message.is_mod, message.author, message.channel)
    THEN \E outcome \in ModerationOutcomes :
            /\ acts' = Moderation(outcome, message.author)
            /\ UNCHANGED <<word_responses, spam_patterns, last_response_time, disk,
                           failures, responseLog>>
    ELSE Return

\* faulty variant of event_message: the spam test comes before the test for a command
event_messageSpamFirst(message) ==
    /\ status = "running"
    /\ msg = NoMessage
    /\ message.channel \in Range(channels)
    /\ msg' = message
    /\ UNCHANGED <<status, channels, response_delay, now, probe, tasks>>
    /\ IF message.echo THEN Return
       ELSE IF is_spam(spam_patterns, message.content) THEN moderate(message)
       ELSE IF StartsWith(message.content, Prefix) THEN handle_commands(message)
       ELSE respond(message)

\* faulty variant of event_message: message.echo is not looked at
event_messageAnsweringEcho(message) ==
    /\ status = "running"
    /\ msg = NoMessage
    /\ message.channel \in Range(channels)
    /\ msg' = message
    /\ UNCHANGED <<status, channels, response_delay, now, probe, tasks>>
    /\ IF StartsWith(message.content, Prefix) THEN handle_commands(message)
       ELSE IF is_spam(spam_patterns, message.content) THEN moderate(message)
       ELSE respond(message)

\* one run of the handler, from the message to its return
event_message(message) ==
    /\ status = "running"
    /\ msg = NoMessage
    /\ message.channel \in Range(channels)
    /\ msg' = message
    /\ UNCHANGED <<status, channels, response_delay, now, probe, tasks>>
    /\ IF message.echo THEN Return
       ELSE IF StartsWith(message.content, Prefix) THEN handle_commands(message)
       ELSE IF is_spam(spam_patterns, message.content) THEN moderate(message)
       ELSE respond(message)

\* the handler has returned and the bot waits for the next message
Returned ==
    /\ msg # NoMessage
    /\ msg' = NoMessage
    /\ acts' = <<>>
    /\ UNCHANGED <<botVars, disk, failures, now, responseLog, probe, tasks>>

Next ==
    \/ Tick
    \/ \E message \in Messages : event_message(message)
    \/ Returned

Spec == Init /\ [][Next]_vars

----------------------------------------------------------------------------
(* TextCleaner and SpamDetector run alone: a SpamDetector is built on a    *)
(* list of patterns, a text is cleaned, the result is cleaned once more,   *)
(* and the text is classified.                                             *)

TextAlphabet == {"a", "A", "!", " ", "U+00E9", "U+210C"}
ShortTexts == UNION {[1..n -> TextAlphabet] : n \in 0..MaxLen}

S_free == <<"f","r","e","e">>
S_free_money == <<"f","r","e","e"," ","m","o","n","e","y">>
T_freedom == <<"f","r","e","e","d","o","m">>
T_FREE_MONEY == <<"F","R","E","E"," "," "," ","M","O","N","E","Y","!","!">>

ProbeTexts == ShortTexts \cup {T_freedom, T_FREE_MONEY}
ProbePatterns ==
    { <<S_free_money>>, <<S_free>>, <<<<"A">>>>, <<<<"a"," ","a">>, <<"h">>>>, <<>> }

InitText ==
    /\ status = "exited"
    /\ channels = <<>>
    /\ word_responses = <<>>
    /\ \E patterns \in ProbePatterns : spam_patterns = SpamDetectorInit(patterns)
    /\ response_delay = 0
    /\ last_response_time = 0
    /\ disk = EmptyFile
    /\ failures = 0
    /\ now = Epoch
    /\ msg = NoMessage
    /\ acts = <<>>
    /\ responseLog = <<>>
    /\ tasks = <<>>
    /\ \E text \in ProbeTexts :
          probe = [stage |-> "text", text |-> text, cleaned |-> <<>>,
                   recleaned |-> <<>>, spam |-> FALSE]

CleanText ==
    /\ probe.stage = "text"
    /\ probe' = [probe EXCEPT !.stage = "cleaned", !.cleaned = clean_text(probe.text)]
    /\ UNCHANGED <<botVars, disk, failures, now, msg, acts, responseLog, tasks>>

CleanAgain ==
    /\ probe.stage = "cleaned"
    /\ probe' = [probe EXCEPT !.stage = "recleaned",
                              !.recleaned = clean_text(probe.cleaned)]
    /\ UNCHANGED <<botVars, disk, failures, now, msg, acts, responseLog, tasks>>

Classify ==
    /\ probe.stage = "recleaned"
    /\ probe' = [probe EXCEPT !.stage = "classified",
                              !.spam = is_spam(spam_patterns, probe.text)]
    /\ UNCHANGED <<botVars, disk, failures, now, msg, acts, responseLog, tasks>>

NextText == CleanText \/ CleanAgain \/ Classify

SpecText == InitText /\ [][NextText]_vars

----------------------------------------------------------------------------
(* event_message with its await as a suspension point.  The library starts *)
(* the handler of every message as a task of its own on one event loop, so *)
(* a handler runs alone from one await to the next, and at                 *)
(* "await message.channel.send(response)" the loop may run the handlers of *)
(* other messages before this one goes on to line 208.                     *)

TaskIds == 1..MaxTasks
IdleTask == [pc |-> "idle", message |-> NoMessage, current_time |-> 0, response |-> <<>>]

\* config.yml files with triggers in them
TwoTriggersFile ==
    [channels |-> <<S_chan, S_bob>>,
     word_responses |-> <<<<S_hi, S_yo>>, <<S_go, S_bye>>>>]
AsyncFiles == {FullFile, TwoTriggersFile}
\* lines of the viewer that get as far as line 197
AsyncMessages == {Message(t, S_bob, S_chan, FALSE, FALSE) : t \in {T_GO, T_ago, T_hi_go}}

InitAsync ==
    \E file \in AsyncFiles :
        LET config == load_config(file) IN
        /\ disk = file
        /\ status = "running"
        /\ channels = config.channels
        /\ word_responses = config.word_responses
        /\ spam_patterns = SpamDetectorInit(config.spam_patterns)
        /\ response_delay = config.response_delay
        /\ last_response_time = 0
        /\ failures = 0
        /\ now = Epoch
        /\ msg = NoMessage
        /\ acts = <<>>
        /\ responseLog = <<>>
        /\ probe = <<>>
        /\ tasks = [t \in TaskIds |-> IdleTask]

\* lines 171-207, as far as the await: the task returns, or it is suspended
\* in the send with current_time and response in its frame
respond_check(t, message) ==
    /\ tasks[t].pc = "idle"
    /\ message.channel \in Range(channels)
    /\ ~message.echo
    /\ ~StartsWith(message.content, Prefix)
    /\ ~is_spam(spam_patterns, message.content)
    /\ LET current_time == now
           words_in_message == Split(clean_text(message.content))
           hit == FirstTrigger(word_responses, words_in_message)
       IN  IF CooldownActive(current_time, last_response_time, response_delay)
           THEN UNCHANGED tasks
           ELSE IF hit = 0 THEN UNCHANGED tasks
           ELSE tasks' = [tasks EXCEPT ![t] =
                             [pc |-> "send", message |-> message,
                              current_time |-> current_time,
                              response |-> word_responses[hit][2]]]
    /\ UNCHANGED <<botVars, disk, failures, now, msg, acts, responseLog, probe>>

\* lines 207-209, from the await on: the response has gone out, and the task
\* assigns the time it read at line 197
respond_resume(t) ==
    /\ tasks[t].pc = "send"
    /\ responseLog' = Append(responseLog, now)
    /\ last_response_time' = tasks[t].current_time
    /\ tasks' = [tasks EXCEPT ![t] = IdleTask]
    /\ UNCHANGED <<status, channels, word_responses, spam_patterns, response_delay,
                   disk, failures, now, msg, acts, probe>>

NextAsync ==
    \/ Tick
    \/ \E t \in TaskIds, message \in AsyncMessages : respond_check(t, message)
    \/ \E t \in TaskIds : respond_resume(t)

SpecAsync == InitAsync /\ [][NextAsync]_vars

----------------------------------------------------------------------------
(* Properties of the text functions, under SpecText                        *)

\* C5: cleaning is idempotent: cleaning a cleaned text gives the same text
C5_CleanIdempotent ==
    probe.stage \in {"recleaned", "classified"} => probe.recleaned = probe.cleaned

\* s[i..j] for some i, j
IsSubstring(needle, haystack) ==
    \E i \in 1..(Len(haystack) + 1), j \in 0..Len(haystack) :
        SubSeq(haystack, i, j) = needle

\* C6: a text is spam exactly when a configured pattern is a substring of the
\* cleaned text; in particular "FREE   MONEY!!" is spam under the pattern
\* "free money" and "freedom" is spam under the pattern "free"
C6_SpamIsSubstringMatch ==
    probe.stage = "classified" =>
        /\ probe.spam = (\E p \in Range(spam_patterns) : IsSubstring(p, probe.cleaned))
        /\ (spam_patterns = <<S_free_money>> /\ probe.text = T_FREE_MONEY) => probe.spam
        /\ (spam_patterns = <<S_free>> /\ probe.text = T_freedom) => probe.spam

\* xs has the same character twice in a row
HasRun(xs) == \E i \in 1..(Len(xs) - 1) : xs[i] = xs[i + 1]

\* C16: a cleaned text has no character twice in a row, no punctuation, no
\* uppercase letter and no character outside ASCII, no whitespace at either
\* end, and no whitespace but single spaces
C16_CleanedIsNormalized ==
    probe.stage \in {"cleaned", "recleaned", "classified"} =>
        LET out == probe.cleaned IN
        /\ ~HasRun(out)
        /\ \A i \in 1..Len(out) :
              /\ out[i] \notin Punctuation
              /\ out[i] \notin Range(UpperLetters)
              /\ out[i] \in AsciiChars
              /\ out[i] \in Whitespace => out[i] = " "
        /\ out # <<>> => out[1] # " " /\ out[Len(out)] # " "

----------------------------------------------------------------------------
(* Properties of the bot, under Spec.  They read the handler's input and   *)
(* effects off msg and acts, and say what they mean by privileged, command *)
(* and trigger in their own words.                                         *)

\* this step is one run of event_message
Handling == msg = NoMessage /\ msg' # NoMessage

ByPrivileged(m) == m.is_mod \/ Lower(m.author) = Lower(m.channel)
IsCommandLine(m) == m.content # <<>> /\ m.content[1] = "!"
IsResponse(a) == a.op = "send" /\ a.fmt = ResponseFmt
IsTimeout(a) == a.op = "send" /\ a.fmt = TimeoutFmt
IsDelete(a) == a.op = "delete"
IsSave(a) == a.op = "save_config"
NoResponseIn(as) == \A k \in 1..Len(as) : ~IsResponse(as[k])

\* the cleaned form of some trigger is one of the words of the cleaned text
TriggerPresent(responses, content) ==
    \E k \in DictKeys(responses) : clean_text(k) \in Range(Split(clean_text(content)))

N_addresponse == <<"a","d","d","r","e","s","p","o","n","s","e">>
N_delresponse == <<"d","e","l","r","e","s","p","o","n","s","e">>
N_responses == <<"r","e","s","p","o","n","s","e","s">>
N_addspam == <<"a","d","d","s","p","a","m">>
N_delspam == <<"d","e","l","s","p","a","m">>
N_spampatterns == <<"s","p","a","m","p","a","t","t","e","r","n","s">>
AdminCommands ==
    {N_addresponse, N_delresponse, N_responses, N_addspam, N_delspam, N_spampatterns}

\* C1: responseLog holds the time of every trigger response, whatever its
\* channel and trigger, and any two of them lie at least response_delay apart
C1_GlobalCooldown ==
    /\ \A i, j \in 1..Len(responseLog) :
          i < j => responseLog[j] - responseLog[i] >= response_delay
    /\ ~NoResponseIn(acts) =>
          /\ responseLog # <<>>
          /\ responseLog[Len(responseLog)] = now

\* a line with a trigger, written in the channel bob before the delay that
\* the last response started is over, is not answered
C1_Witness ==
    /\ msg # NoMessage /\ ~msg.echo /\ ~IsCommandLine(msg)
    /\ ~is_spam(spam_patterns, msg.content)
    /\ TriggerPresent(word_responses, msg.content)
    /\ responseLog # <<>>
    /\ msg.channel = S_bob
    /\ now - responseLog[Len(responseLog)] < response_delay
    /\ acts = <<>>

\* C2: the handler of a line that matches a spam pattern sends no trigger
\* response and leaves last_response_time alone, whoever wrote the line
C2_SpamShortCircuits ==
    [][(Handling /\ is_spam(spam_patterns, msg'.content)) =>
          /\ NoResponseIn(acts')
          /\ last_response_time' = last_response_time
          /\ responseLog' = responseLog]_vars

\* a viewer's spam with a trigger in it, the delay over, the timeout failed
C2_Witness ==
    /\ msg # NoMessage /\ ~msg.echo /\ ~IsCommandLine(msg) /\ ~ByPrivileged(msg)
    /\ is_spam(spam_patterns, msg.content)
    /\ TriggerPresent(word_responses, msg.content)
    /\ now - last_response_time >= response_delay
    /\ Len(acts) = 1 /\ IsTimeout(acts[1]) /\ ~acts[1].ok

\* C3: the handler of a line that matches a spam pattern and was written by a
\* moderator or by the broadcaster issues neither the timeout nor the delete
C3_PrivilegeExemption ==
    [][(Handling /\ is_spam(spam_patterns, msg'.content) /\ ByPrivileged(msg')) =>
          \A k \in 1..Len(acts') : ~IsTimeout(acts'[k]) /\ ~IsDelete(acts'[k])]_vars

\* spam of the broadcaster, whose name differs from the channel's in case only
C3_Witness ==
    /\ msg # NoMessage /\ ~msg.echo /\ ~IsCommandLine(msg)
    /\ is_spam(spam_patterns, msg.content)
    /\ ~msg.is_mod /\ msg.author # msg.channel /\ Lower(msg.author) = Lower(msg.channel)
    /\ acts = <<>>

\* C4: an administrative command of an author who is neither moderator nor
\* broadcaster changes neither the dict, the list nor the file, writes
\* nothing and answers nothing
C4_CommandAuthorization ==
    [][(/\ Handling
        /\ IsCommandLine(msg')
        /\ CommandName(msg'.content) \in AdminCommands
        /\ ~ByPrivileged(msg')) =>
          /\ word_responses' = word_responses
          /\ spam_patterns' = spam_patterns
          /\ disk' = disk
          /\ failures' = failures
          /\ acts' = <<>>]_vars

\* a viewer's !addresponse go bye
C4_Witness ==
    /\ msg = Message(T_addresponse_go, S_bob, S_chan, FALSE, FALSE)
    /\ S_go \notin DictKeys(word_responses)
    /\ acts = <<>>

SuccessFmts ==
    {"Added response for '{trigger}'", "Deleted response for '{trigger}'",
     "Added spam pattern '{pattern}'", "Deleted spam pattern '{pattern}'"}
ReportsSuccess(as) == \E k \in 1..Len(as) : as[k].op = "send" /\ as[k].fmt \in SuccessFmts

\* C7: when a changing command has answered with success, loading config.yml
\* gives the channels, dict, list and delay of the bot, the change included
C7_PersistenceRoundTrip ==
    ReportsSuccess(acts) =>
        LET reloaded == load_config(disk)
            name == CommandName(msg.content)
            args == CommandArgs(msg.content)
        IN  /\ reloaded # None
            /\ reloaded.channels = channels
            /\ DictEq(reloaded.word_responses, word_responses)
            /\ reloaded.spam_patterns = spam_patterns
            /\ reloaded.response_delay = response_delay
            /\ name = N_addresponse =>
                  <<Lower(args[1]), Join(<<" ">>, Tail(args))>>
                      \in Range(reloaded.word_responses)
            /\ name = N_delresponse =>
                  Lower(args[1]) \notin DictKeys(reloaded.word_responses)
            /\ name = N_addspam => Lower(args[1]) \in Range(reloaded.spam_patterns)

\* !addresponse go bye has succeeded after an earlier write had failed
C7_Witness ==
    /\ ReportsSuccess(acts)
    /\ msg.content = T_addresponse_go
    /\ failures >= 1
    /\ <<S_go, S_bye>> \in Range(load_config(disk).word_responses)

\* C8: when the write of a changing command fails the change stays in memory,
\* the author is told that saving failed and not that the command succeeded,
\* the bot keeps running, and the triggers answered afterwards are those in
\* memory
C8_FailedSaveKeepsChange ==
    [][/\ (Handling /\ acts' # <<>> /\ IsSave(acts'[1]) /\ ~acts'[1].ok) =>
            LET name == CommandName(msg'.content)
                args == CommandArgs(msg'.content)
            IN  /\ acts' = <<acts'[1], Send(SaveFailedFmt, <<>>)>>
                /\ ~ReportsSuccess(acts')
                /\ status' = "running"
                /\ name = N_addresponse =>
                      /\ DictKeys(word_responses') =
                            DictKeys(word_responses) \cup {Lower(args[1])}
                      /\ DictGet(word_responses', Lower(args[1])) =
                            Join(<<" ">>, Tail(args))
                /\ name = N_delresponse =>
                      /\ Lower(args[1]) \in DictKeys(word_responses)
                      /\ DictKeys(word_responses') =
                            DictKeys(word_responses) \ {Lower(args[1])}
                /\ name = N_addspam =>
                      spam_patterns' = Append(spam_patterns, Lower(args[1]))
                /\ name = N_delspam =>
                      /\ Lower(args[1]) \in Range(spam_patterns)
                      /\ Len(spam_patterns') = Len(spam_patterns) - 1
       /\ (Handling /\ failures > 0 /\ ~NoResponseIn(acts')) =>
            \E i \in 1..Len(word_responses) :
                /\ clean_text(word_responses[i][1])
                      \in Range(Split(clean_text(msg'.content)))
                /\ acts' = <<Send(ResponseFmt, word_responses[i][2])>>]_vars

\* the write of !addresponse go bye has failed, the file knows no go, and a
\* line with go in it is answered bye
C8_Witness ==
    /\ failures >= 1
    /\ msg # NoMessage /\ ~IsCommandLine(msg)
    /\ S_go \in DictKeys(word_responses)
    /\ load_config(disk) = None \/ S_go \notin DictKeys(load_config(disk).word_responses)
    /\ acts = <<Send(ResponseFmt, S_bye)>>

\* C9: delresponse of a trigger that is no key of the dict, and delspam of a
\* pattern that is not in the list, by a privileged author, answer "not
\* found", change neither the dict nor the list, and write nothing
C9_DeleteAbsent ==
    [][(Handling /\ ~msg'.echo /\ IsCommandLine(msg') /\ ByPrivileged(msg')) =>
          LET name == CommandName(msg'.content)
              args == CommandArgs(msg'.content)
              Untouched ==
                  /\ word_responses' = word_responses
                  /\ spam_patterns' = spam_patterns
                  /\ disk' = disk
                  /\ failures' = failures
          IN  /\ (name = N_delresponse /\ Lower(args[1]) \notin DictKeys(word_responses)) =>
                    /\ acts' = <<Send("No response found for '{trigger}'", args[1])>>
                    /\ Untouched
              /\ (name = N_delspam /\ Lower(args[1]) \notin Range(spam_patterns)) =>
                    /\ acts' = <<Send("Spam pattern '{pattern}' not found", Lower(args[1]))>>
                    /\ Untouched]_vars

\* a moderator's !delspam CASINO with no casino in the list
C9_Witness ==
    /\ msg # NoMessage /\ ~msg.echo /\ ByPrivileged(msg)
    /\ msg.content = T_delspam_CASINO
    /\ S_casino \notin Range(spam_patterns)
    /\ acts = <<Send("Spam pattern '{pattern}' not found", S_casino)>>

\* C10: a line that is no echo, no command and no spam and has a trigger among
\* its words is answered exactly once, with last_response_time set to the
\* present time, when the delay is over, the very end of it included, and is
\* not answered before
C10_CooldownExpiry ==
    [][(/\ Handling /\ ~msg'.echo /\ ~IsCommandLine(msg')
        /\ ~is_spam(spam_patterns, msg'.content)
        /\ TriggerPresent(word_responses, msg'.content)) =>
          IF now - last_response_time >= response_delay
          THEN /\ Len(acts') = 1 /\ IsResponse(acts'[1]) /\ acts'[1].ok
               /\ last_response_time' = now
          ELSE /\ acts' = <<>>
               /\ last_response_time' = last_response_time]_vars

\* with a delay of 3, a second response exactly 3 after the first
C10_Witness ==
    /\ response_delay = 3
    /\ Len(responseLog) = 2
    /\ responseLog[2] = responseLog[1] + 3
    /\ now = responseLog[2]
    /\ last_response_time = now
    /\ Len(acts) = 1 /\ IsResponse(acts[1])

\* the line reaches the spam stage and is found to be spam of a viewer
SpamOfViewer(m) ==
    /\ ~m.echo /\ ~IsCommandLine(m)
    /\ is_spam(spam_patterns, m.content)
    /\ ~ByPrivileged(m)

\* C11: for spam of an author who is neither moderator nor broadcaster the
\* handler attempts the timeout first and the delete second, the delete also
\* when the timeout has failed
C11_SuppressAttemptsBoth ==
    [][(Handling /\ SpamOfViewer(msg')) =>
          /\ Len(acts') = 2
          /\ IsTimeout(acts'[1]) /\ acts'[1].arg = msg'.author
          /\ IsDelete(acts'[2])]_vars

----------------------------------------------------------------------------
(* Properties of the interleaved handlers, under SpecAsync                 *)

\* C12: with the handlers of two lines interleaved at the await of the send,
\* any two trigger responses still lie at least response_delay apart, and
\* last_response_time never goes back
C12_CooldownUnderInterleaving ==
    [][/\ \A i, j \in 1..Len(responseLog') :
              i < j => responseLog'[j] - responseLog'[i] >= response_delay
       /\ last_response_time' >= last_response_time]_vars

----------------------------------------------------------------------------
(* More properties of the bot, under Spec                                  *)

\* the line gets as far as the trigger stage
ReachesTriggers(m) ==
    ~m.echo /\ ~IsCommandLine(m) /\ ~is_spam(spam_patterns, m.content)
\* the keys of a dict in the order the dict keeps them
KeyOrder(d) == [i \in 1..Len(d) |-> d[i][1]]
\* a command of a moderator or of the broadcaster
PrivilegedCommand(m) == ~m.echo /\ IsCommandLine(m) /\ ByPrivileged(m)

\* C13: with the delay over, a line that has the cleaned forms of one or more
\* triggers among its words gets exactly one response, that of the first such
\* trigger in the order of the dict; addresponse leaves a known trigger in its
\* place and puts a new one last, delresponse takes the trigger out and leaves
\* the order of the others
C13_TriggerTieBreak ==
    [][/\ (/\ Handling /\ ReachesTriggers(msg')
           /\ now - last_response_time >= response_delay
           /\ TriggerPresent(word_responses, msg'.content)) =>
             LET tokens == Range(Split(clean_text(msg'.content)))
                 present == {i \in 1..Len(word_responses) :
                                clean_text(word_responses[i][1]) \in tokens}
                 first == CHOOSE i \in present : \A j \in present : i <= j
             IN  acts' = <<Send(ResponseFmt, word_responses[first][2])>>
       /\ (Handling /\ PrivilegedCommand(msg')) =>
             LET name == CommandName(msg'.content)
                 args == CommandArgs(msg'.content)
                 key == Lower(args[1])
             IN  /\ (name = N_addresponse /\ Len(args) >= 2) =>
                       KeyOrder(word_responses') =
                           IF key \in DictKeys(word_responses)
                           THEN KeyOrder(word_responses)
                           ELSE Append(KeyOrder(word_responses), key)
                 /\ (name = N_delresponse /\ Len(args) >= 1) =>
                       KeyOrder(word_responses') =
                           SelectSeq(KeyOrder(word_responses), LAMBDA k : k # key)]_vars

\* hi was deleted and added again after go was added, and "hi go" is
\* answered with the response of go
C13_Witness ==
    /\ msg # NoMessage /\ msg.content = T_hi_go
    /\ KeyOrder(word_responses) = <<S_go, S_hi>>
    /\ acts = <<Send(ResponseFmt, S_bye)>>

\* C14: last_response_time changes only in a step that sends a trigger
\* response; a line that gets to the trigger stage before the delay is over
\* sends nothing and leaves last_response_time alone, with or without a
\* trigger in it, and so does a line after the delay none of whose words is a
\* cleaned trigger, a trigger inside a longer word not counting
C14_RespondFrame ==
    [][/\ last_response_time' # last_response_time =>
             Handling /\ ~NoResponseIn(acts')
       /\ (/\ Handling /\ ReachesTriggers(msg')
           /\ now - last_response_time < response_delay) =>
             acts' = <<>> /\ last_response_time' = last_response_time
       /\ (/\ Handling /\ ReachesTriggers(msg')
           /\ now - last_response_time >= response_delay
           /\ ~TriggerPresent(word_responses, msg'.content)) =>
             acts' = <<>> /\ last_response_time' = last_response_time]_vars

\* "ago" with the trigger go in the dict and the delay over: no answer
C14_Witness ==
    /\ msg # NoMessage /\ ReachesTriggers(msg)
    /\ msg.content = T_ago
    /\ S_go \in DictKeys(word_responses)
    /\ now - last_response_time >= response_delay
    /\ acts = <<>>

\* C15: the handler of a line that is no echo and begins with "!" issues no
\* timeout, no delete and no trigger response and leaves last_response_time
\* alone, whoever wrote it and whatever pattern or trigger is in it
C15_CommandStageFirst ==
    [][(Handling /\ ~msg'.echo /\ IsCommandLine(msg')) =>
          /\ \A k \in 1..Len(acts') :
                ~IsTimeout(acts'[k]) /\ ~IsDelete(acts'[k]) /\ ~IsResponse(acts'[k])
          /\ last_response_time' = last_response_time
          /\ responseLog' = responseLog]_vars

\* a viewer's "!addspam Casino" while casino is a pattern
C15_Witness ==
    /\ msg = Message(T_addspam_Casino, S_bob, S_chan, FALSE, FALSE)
    /\ is_spam(spam_patterns, msg.content)
    /\ acts = <<>>

\* C20: the handler of a line flagged as the bot's own asks nothing of the
\* transport or the disk and changes no field of the bot, whatever the text
C20_EchoInert ==
    [][(Handling /\ msg'.echo) =>
          /\ acts' = <<>>
          /\ botVars' = botVars
          /\ disk' = disk
          /\ failures' = failures
          /\ responseLog' = responseLog]_vars

\* the bot's own "GO!" with the trigger go in the dict and the delay over
C20_Witness ==
    /\ msg # NoMessage /\ msg.echo
    /\ msg.content = T_GO
    /\ S_go \in DictKeys(word_responses)
    /\ now - last_response_time >= response_delay
    /\ acts = <<>>

\* how many of the acts satisfy P
Count(as, P(_)) == Cardinality({k \in 1..Len(as) : P(as[k])})
FailedIn(as) == \E k \in 1..Len(as) : ~as[k].ok

\* C17: a handler attempts the timeout, the delete and the write at most once
\* each; after a timeout or a delete that failed it does nothing more and has
\* changed no field of the bot, after a write that failed it only answers;
\* the bot stays running, and the handler returns with every field as it
\* left it, to wait for the next message
C17_FailuresContained ==
    [][/\ Handling =>
             /\ Count(acts', IsTimeout) <= 1
             /\ Count(acts', IsDelete) <= 1
             /\ Count(acts', IsSave) <= 1
             /\ \A k \in 1..Len(acts') :
                   (~acts'[k].ok /\ ~IsSave(acts'[k])) =>
                       /\ IsTimeout(acts'[k]) \/ IsDelete(acts'[k])
                       /\ k = Len(acts')
                       /\ botVars' = botVars /\ disk' = disk
             /\ \A k \in 1..Len(acts') :
                   (~acts'[k].ok /\ IsSave(acts'[k])) =>
                       acts' = <<acts'[k], Send(SaveFailedFmt, <<>>)>>
       /\ status = "running" => status' = "running"
       /\ (msg # NoMessage /\ FailedIn(acts)) =>
             /\ msg' = NoMessage
             /\ botVars' = botVars /\ disk' = disk]_vars

\* a write of config.yml has failed before, and now the delete of a viewer's
\* spam fails after the timeout was sent
C17_Witness ==
    /\ status = "running"
    /\ failures >= 1
    /\ msg # NoMessage /\ SpamOfViewer(msg)
    /\ Len(acts) = 2
    /\ IsTimeout(acts[1]) /\ acts[1].ok
    /\ IsDelete(acts[2]) /\ ~acts[2].ok

\* the value a loaded configuration has for a key: the stored one, or the default
StoredOr(file, k, default) == IF k \in DOMAIN file THEN file[k] ELSE default

\* C18: no configuration is returned and the bot is not started when config.yml
\* has no channels or an empty list of channels; with a list that is not
\* empty the bot is started, on the stored fields and on the defaults {},
\* ["casino"] and 1.0 for the fields that are not stored.  While no write has
\* failed, a file of InitialFiles on the disk is the file the bot was started on.
C18_ConfigurationLoad ==
    (failures = 0 /\ disk \in InitialFiles) =>
        LET file == disk
            config == load_config(file)
        IN  IF "channels" \notin DOMAIN file \/ file.channels = <<>>
            THEN config = None /\ status = "exited"
            ELSE /\ config # None /\ status = "running"
                 /\ channels = file.channels
                 /\ config.channels = file.channels
                 /\ config.word_responses = StoredOr(file, "word_responses", <<>>)
                 /\ config.spam_patterns = StoredOr(file, "spam_patterns", <<S_casino>>)
                 /\ config.response_delay = StoredOr(file, "response_delay", 1)

\* how often x is in the list
Occurrences(l, x) == Cardinality({i \in 1..Len(l) : l[i] = x})

\* C19: addspam of a privileged author puts the lowercased pattern at the end
\* of the list, known or not; delspam of a pattern in the list takes out its
\* first occurrence and leaves the rest in order; a pattern that was in the
\* list twice is still in it after delspam, and the chat lines that were spam
\* still are
C19_PatternsKeepDuplicates ==
    [][(Handling /\ PrivilegedCommand(msg')) =>
          LET name == CommandName(msg'.content)
              args == CommandArgs(msg'.content)
              p == Lower(args[1])
              n == Len(spam_patterns)
          IN  /\ (name = N_addspam /\ Len(args) >= 1) =>
                    /\ Len(spam_patterns') = n + 1
                    /\ spam_patterns' = Append(spam_patterns, p)
              /\ (name = N_delspam /\ Len(args) >= 1 /\ p \in Range(spam_patterns)) =>
                    /\ Len(spam_patterns') = n - 1
                    /\ \E i \in 1..n :
                          /\ spam_patterns[i] = p
                          /\ \A j \in 1..(i - 1) : spam_patterns[j] # p
                          /\ spam_patterns' =
                                [k \in 1..(n - 1) |->
                                    IF k < i THEN spam_patterns[k] ELSE spam_patterns[k + 1]]
                    /\ Occurrences(spam_patterns, p) >= 2 =>
                          /\ p \in Range(spam_patterns')
                          /\ \A text \in ChatTexts :
                                is_spam(spam_patterns', text) = is_spam(spam_patterns, text)]_vars

\* !delspam CASINO has taken one casino out of the list, another is left, and
\* "CASINO go" is spam still
C19_Witness ==
    /\ msg # NoMessage /\ ~msg.echo /\ ByPrivileged(msg)
    /\ msg.content = T_delspam_CASINO
    /\ acts # <<>> /\ IsSave(acts[1])
    /\ spam_patterns = <<S_casino>>
    /\ is_spam(spam_patterns, T_CASINO_go)

====
